---- MODULE Spec2Model ----
(***************************************************************************)
(* State-machine model of stock_mcp_server.py: the three FastMCP tools     *)
(* get_stock_price, get_historical_data and calculate_metrics, each a      *)
(* coroutine that builds a yfinance Ticker, calls its history() once,      *)
(* and renders the returned frame into text inside one try/except.         *)
(*                                                                         *)
(* Representation.                                                         *)
(*  - A DataFrame is a sequence of rows [date, close, volume] in the       *)
(*    provider's (ascending) order.  Prices are integers in thousandths    *)
(*    of a dollar, so that round(x, 2) really rounds.                      *)
(*  - Closes range over powers of two: every log-return                    *)
(*    ln(c[i]/c[i-1]) is then an exact integer multiple of ln 2, and the   *)
(*    variance of the returns an exact rational multiple of (ln 2)^2.      *)
(*    A float is a record [nan, num, den] with num/den in lowest terms;    *)
(*    the volatility is carried by its square, in units of (ln 2)^2.       *)
(*  - Argument strings that the code parses (dates) are sequences of       *)
(*    characters; the returned text is a record of the template's fields.  *)
(*  - An exception is a record [type, msg].                                *)
(***************************************************************************)
EXTENDS Integers, Sequences, FiniteSets, TLC

VARIABLES
    market,     \* the series the provider currently serves
    pc,         \* pc[i]: where invocation i stands
    call,       \* call[i]: tool and arguments of invocation i
    req,        \* req[i]: the arguments passed to stock.history
    fetches,    \* fetches[i]: calls of stock.history made by invocation i
    resp,       \* resp[i]: what stock.history returned to invocation i
    locals,     \* locals[i]: sma and volatility of calculate_metrics
    raised,     \* raised[i]: the exception raised inside the try, if any
    result,     \* result[i]: the text returned
    outcome     \* outcome[i]: "running", "returned" or "propagated"

vars == <<market, pc, call, req, fetches, resp, locals, raised, result, outcome>>

-----------------------------------------------------------------------------
(* Bounds and program constants *)

NumInv == 2
MaxBars == 21

Window == 20
HistLimit == 10
TradingDays == 252
PriceDigits == 2

Invocations == 1 .. NumInv
Solo == {1}

-----------------------------------------------------------------------------
(* Arithmetic helpers *)

Min(a, b) == IF a < b THEN a ELSE b

Abs(a) == IF a < 0 THEN 0 - a ELSE a

RECURSIVE GCD(_, _)
GCD(a, b) == IF b = 0 THEN a ELSE GCD(b, a % b)

RECURSIVE Pow10(_)
Pow10(k) == IF k = 0 THEN 1 ELSE 10 * Pow10(k - 1)

\* A finite float value num/den, stored in lowest terms.
Num(n, d) ==
    LET g == GCD(Abs(n), d)
    IN  [nan |-> FALSE, num |-> n \div g, den |-> d \div g]

NaN == [nan |-> TRUE, num |-> 0, den |-> 1]

\* NaN in a column of integers (a missing volume, the row shift(1) lets in).
Missing == 0 - 1

RECURSIVE SumSeq(_)
SumSeq(s) == IF s = <<>> THEN 0 ELSE s[1] + SumSeq(Tail(s))

\* log2 of a power of two: np.log(x) = Log2(x) * ln 2.
RECURSIVE Log2(_)
Log2(x) == IF x <= 1 THEN 0 ELSE 1 + Log2(x \div 2)

-----------------------------------------------------------------------------
(* Results of a step that may raise *)

Ok(v) == [raised |-> FALSE, val |-> v]
Raise(type, msg) == [raised |-> TRUE, exc |-> [type |-> type, msg |-> msg]]

-----------------------------------------------------------------------------
(* datetime.strptime(text, "%Y-%m-%d") on a sequence of characters *)

DigitChars == <<"0", "1", "2", "3", "4", "5", "6", "7", "8", "9">>

IsDigit(c) == \E i \in 1 .. Len(DigitChars) : DigitChars[i] = c

DigitValue(c) == (CHOOSE i \in 1 .. Len(DigitChars) : DigitChars[i] = c) - 1

AllDigits(f) == \A i \in 1 .. Len(f) : IsDigit(f[i])

RECURSIVE ToInt(_)
ToInt(f) ==
    IF f = <<>> THEN 0
    ELSE 10 * ToInt(SubSeq(f, 1, Len(f) - 1)) + DigitValue(f[Len(f)])

RECURSIVE Join(_)
Join(s) == IF s = <<>> THEN "" ELSE s[1] \o Join(Tail(s))

\* The fields of s between occurrences of sep.
RECURSIVE SplitOn(_, _)
SplitOn(s, sep) ==
    IF s = <<>> THEN << <<>> >>
    ELSE LET rest == SplitOn(Tail(s), sep)
         IN  IF s[1] = sep THEN << <<>> >> \o rest
             ELSE << <<s[1]>> \o rest[1] >> \o Tail(rest)

IsLeap(y) == (y % 4 = 0 /\ y % 100 # 0) \/ y % 400 = 0

DaysInMonth(y, m) ==
    IF m = 2 THEN (IF IsLeap(y) THEN 29 ELSE 28)
    ELSE IF m \in {4, 6, 9, 11} THEN 30 ELSE 31

\* %Y is four digits, %m and %d one or two digits in range.
MatchesFormat(s) ==
    LET f == SplitOn(s, "-")
    IN  /\ Len(f) = 3
        /\ Len(f[1]) = 4 /\ AllDigits(f[1])
        /\ Len(f[2]) \in 1 .. 2 /\ AllDigits(f[2]) /\ ToInt(f[2]) \in 1 .. 12
        /\ Len(f[3]) \in 1 .. 2 /\ AllDigits(f[3]) /\ ToInt(f[3]) \in 1 .. 31

strptime(s) ==
    IF ~MatchesFormat(s)
    THEN Raise("ValueError",
               "time data '" \o Join(s) \o "' does not match format '%Y-%m-%d'")
    ELSE LET f == SplitOn(s, "-")
             y == ToInt(f[1])
             m == ToInt(f[2])
             d == ToInt(f[3])
         IN  IF d > DaysInMonth(y, m)
             THEN Raise("ValueError", "day is out of range for month")
             ELSE Ok([y |-> y, m |-> m, d |-> d])

\* datetime.now(): the clock reading when the default end is taken.
Now == [y |-> 2024, m |-> 2, d |-> 15]

\* An optional string argument: None, or a string.
None == [none |-> TRUE, text |-> <<>>]
Str(s) == [none |-> FALSE, text |-> s]

\* Python's truth value of an optional string: None and "" are false.
Truthy(x) == ~x.none /\ x.text # <<>>

-----------------------------------------------------------------------------
(* pandas / numpy operations on the fetched frame *)

\* A frame is never taken to be empty: the test of line 25 is left out.
EmptyNever(data) == FALSE

\* data.empty
Empty(data) == Len(data) = 0

\* data['Close'], data['Volume']
Column(data, name) == [i \in 1 .. Len(data) |-> data[i][name]]

\* series.iloc[-1]
ILocLast(s) ==
    IF Len(s) = 0
    THEN Raise("IndexError", "single positional indexer is out-of-bounds")
    ELSE Ok(s[Len(s)])

\* The timestamp taken from the provider's current series, not from data.
IndexLastRefetched(data) ==
    IF Len(market) = 0
    THEN Raise("IndexError", "index -1 is out of bounds for axis 0 with size 0")
    ELSE Ok(market[Len(market)].Date)

\* data.index[-1]
IndexLast(data) ==
    IF Len(data) = 0
    THEN Raise("IndexError", "index -1 is out of bounds for axis 0 with size 0")
    ELSE Ok(data[Len(data)].Date)

\* The mean of every row up to i, not of the last w.
RollingMeanExpanding(col, w) ==
    [i \in 1 .. Len(col) |->
        IF i < w THEN NaN ELSE Num(SumSeq(SubSeq(col, 1, i)), i)]

\* min_periods=1: a short window is averaged over the rows there are.
RollingMeanShortWindow(col, w) ==
    [i \in 1 .. Len(col) |->
        IF i < w THEN Num(SumSeq(SubSeq(col, 1, i)), i)
        ELSE Num(SumSeq(SubSeq(col, i - w + 1, i)), w)]

\* series.rolling(window=w).mean(): NaN until w observations are in the window.
RollingMean(col, w) ==
    [i \in 1 .. Len(col) |->
        IF i < w THEN NaN ELSE Num(SumSeq(SubSeq(col, i - w + 1, i)), w)]

\* series.shift(1): every value moves down one row, the first becomes NaN.
Shift1(col) ==
    [i \in 1 .. Len(col) |-> IF i = 1 THEN Missing ELSE col[i - 1]]

\* np.log(a / b) elementwise, in units of ln 2; NaN where b is NaN.
LogRatio(a, b) ==
    [i \in 1 .. Len(a) |->
        IF b[i] = Missing THEN NaN ELSE Num(Log2(a[i]) - Log2(b[i]), 1)]

NotNaN(x) == ~x.nan

\* The delta degrees of freedom np.std passes to Series.std.
StdDdof == 0

\* The sample statistic: ddof=1.
StdSquaredSample(series) ==
    LET valid == SelectSeq(series, NotNaN)
        m == Len(valid)
        S == SumSeq([i \in 1 .. m |-> valid[i].num])
        sq == SumSeq([i \in 1 .. m |-> (m * valid[i].num - S) * (m * valid[i].num - S)])
    IN  IF m <= 1 THEN NaN ELSE Num(sq, m * m * (m - 1))

\* np.std(series)^2: Series.std(ddof=0) skips NaN (skipna), takes the mean of
\* the m values left and divides the squared deviations by m - ddof.
\* sum((x - S/m)^2) / (m - ddof) = sum((m*x - S)^2) / (m*m*(m - ddof)).
StdSquared(series) ==
    LET valid == SelectSeq(series, NotNaN)
        m == Len(valid)
        S == SumSeq([i \in 1 .. m |-> valid[i].num])
        sq == SumSeq([i \in 1 .. m |-> (m * valid[i].num - S) * (m * valid[i].num - S)])
    IN  IF m <= StdDdof THEN NaN ELSE Num(sq, m * m * (m - StdDdof))

\* (x * np.sqrt(252))^2 for x given by its square.
Annualize(xsq) ==
    IF xsq.nan THEN NaN ELSE Num(TradingDays * xsq.num, xsq.den)

\* round(x, digits) of a price in thousandths: to the nearest 10^-digits
\* dollar, ties to even; NaN stays NaN.
Round(x, digits) ==
    IF x.nan THEN NaN
    ELSE LET unit == 1000 \div Pow10(digits)
             d == x.den * unit
             q == x.num \div d
             r == x.num % d
             k == IF 2 * r > d \/ (2 * r = d /\ q % 2 = 1) THEN q + 1 ELSE q
         IN  Num(k * unit, 1)

\* round(volatility, 4): NaN stays NaN and 0 stays 0. Any other value is an
\* irrational multiple of ln 2 whose fourth decimal no rational computation
\* here decides; it is kept exact, by its square.
RoundVolatility(vsq) == IF vsq.nan THEN NaN ELSE vsq

\* int(x) of a volume.
IntOf(v) ==
    IF v = Missing
    THEN Raise("ValueError", "cannot convert float NaN to integer")
    ELSE Ok(v)

\* f"{x}" of a float.
FloatText(x) == IF x.nan THEN <<"nan">> ELSE <<"num", x.num, x.den>>

\* f"{volume:,}": the digit groups between the thousands separators.
RECURSIVE Thousands(_)
Thousands(v) ==
    IF v < 1000 THEN <<v>> ELSE Thousands(v \div 1000) \o <<v % 1000>>

\* strftime("%Y-%m-%d") and strftime("%Y-%m-%d %H:%M:%S") of a daily bar.
DateText(d) == <<d.y, d.m, d.d>>
TimestampText(d) == <<d.y, d.m, d.d, 0, 0, 0>>

-----------------------------------------------------------------------------
(* The provider: yfinance, an external collaborator *)

CloseValues == {1024, 2048, 4096}

Bar(i, close, volume) ==
    [Date |-> [y |-> 2024, m |-> 1, d |-> i], Close |-> close, Volume |-> volume]

\* n daily bars closing at a, except bar k which closes at b; with nv the
\* last bar's volume is missing.
MkSeries(n, a, k, b, nv) ==
    [i \in 1 .. n |->
        Bar(i, IF i = k THEN b ELSE a,
            IF nv /\ i = n THEN Missing ELSE 1000000 + 1500 * i)]

\* What history() may return in the sequential specification: nothing, a
\* series with one close that stands out, or a flat series whose last
\* volume is missing.
SeriesFamily ==
    {<<>>}
    \cup UNION {{MkSeries(n, a, k, b, FALSE) :
                    a \in CloseValues, b \in CloseValues, k \in 1 .. n} :
                n \in 1 .. MaxBars}
    \cup {MkSeries(n, a, 1, a, TRUE) : n \in 1 .. MaxBars, a \in CloseValues}

\* What history() may return in the concurrent specification.
ConcFamily ==
    {<<>>, MkSeries(Window, 1024, Window, 2048, FALSE),
     MkSeries(Window + 1, 2048, 1, 4096, FALSE)}

\* Failures the provider may raise: from Ticker(...) and from history(...).
CtorOutcomes == {Ok("Ticker"), Raise("ValueError", "Invalid ISIN number")}
ProviderErrors == {[type |-> "ConnectionError", msg |-> "Max retries exceeded"]}

-----------------------------------------------------------------------------
(* Tool arguments *)

GoodStart == <<"2", "0", "2", "4", "-", "0", "1", "-", "0", "2">>
GoodEnd == <<"2", "0", "2", "4", "-", "0", "1", "-", "3", "1">>
BadFormat == <<"0", "1", "/", "0", "2", "/", "2", "0", "2", "4">>
BadDay == <<"2", "0", "2", "4", "-", "0", "2", "-", "3", "0">>
BadMonth == <<"2", "0", "2", "4", "-", "1", "3", "-", "0", "1">>

Tickers == {"", "AAPL"}
StartDates == {GoodStart, BadFormat, BadDay, <<>>}
EndDates == {None, Str(<<>>), Str(GoodEnd), Str(BadMonth)}
Periods == {"1y"}

Call(tool, ticker, start_date, end_date, period) ==
    [tool |-> tool, ticker |-> ticker, start_date |-> start_date,
     end_date |-> end_date, period |-> period]

NoCall == Call("", "", <<>>, None, "")

Calls ==
    {Call("get_stock_price", t, <<>>, None, "") : t \in Tickers}
    \cup {Call("get_historical_data", t, s, e, "") :
              t \in Tickers, s \in StartDates, e \in EndDates}
    \cup {Call("calculate_metrics", t, <<>>, None, p) : t \in Tickers, p \in Periods}

ConcCalls ==
    {Call("get_stock_price", "AAPL", <<>>, None, ""),
     Call("get_historical_data", "AAPL", GoodStart, None, ""),
     Call("calculate_metrics", "AAPL", <<>>, None, "1y")}

-----------------------------------------------------------------------------
(* The text each tool returns *)

NoResult == [kind |-> "none"]
NoLocals == [sma |-> NaN, volatility |-> NaN]
NoDate == [y |-> 0, m |-> 0, d |-> 0]
NoReq == [period |-> "", start |-> NoDate, end |-> NoDate, ticker |-> ""]

NoDataText(ticker, tail) ==
    [kind |-> "nodata", head |-> "No data available for ticker ",
     ticker |-> ticker, tail |-> tail]

ErrorPrefix(tool) ==
    CASE tool = "get_stock_price" -> "Error fetching data for "
      [] tool = "get_historical_data" -> "Error fetching historical data for "
      [] tool = "calculate_metrics" -> "Error calculating metrics for "

\* f"Error ... for {ticker}: {str(e)}"
ErrorText(tool, ticker, e) ==
    [kind |-> "error", prefix |-> ErrorPrefix(tool), ticker |-> ticker, msg |-> e.msg]

Returns(text, loc) == Ok([text |-> text, locals |-> loc])

-----------------------------------------------------------------------------
(* The try bodies, up to the call of history() *)

\* The date strings handed on unparsed.
ParseDatesUnchecked(c) ==
    Ok([period |-> "", start |-> NoDate, end |-> NoDate, ticker |-> c.ticker])

\* get_historical_data, lines 52-53.
ParseDates(c) ==
    LET s == strptime(c.start_date)
    IN  IF s.raised THEN s
        ELSE LET e == IF Truthy(c.end_date) THEN strptime(c.end_date.text) ELSE Ok(Now)
             IN  IF e.raised THEN e
                 ELSE Ok([period |-> "", start |-> s.val, end |-> e.val,
                          ticker |-> c.ticker])

\* The statements before yf.Ticker(ticker): the arguments of history(), or a raise.
BeforeFetch(c) ==
    CASE c.tool = "get_stock_price" ->
            Ok([period |-> "1d", start |-> NoDate, end |-> NoDate, ticker |-> c.ticker])
      [] c.tool = "get_historical_data" -> ParseDates(c)
      [] c.tool = "calculate_metrics" ->
            Ok([period |-> c.period, start |-> NoDate, end |-> NoDate,
                ticker |-> c.ticker])

-----------------------------------------------------------------------------
(* The try bodies, from the frame history() returned *)

get_stock_price(ticker, data) ==
    IF Empty(data) THEN Returns(NoDataText(ticker, "."), NoLocals)
    ELSE
    LET c == ILocLast(Column(data, "Close")) IN
    IF c.raised THEN c ELSE
    LET v == ILocLast(Column(data, "Volume")) IN
    IF v.raised THEN v ELSE
    LET volume == IntOf(v.val) IN
    IF volume.raised THEN volume ELSE
    LET t == IndexLast(data) IN
    IF t.raised THEN t ELSE
    Returns([kind |-> "snapshot", ticker |-> ticker,
             price |-> FloatText(Round(Num(c.val, 1), PriceDigits)),
             volume |-> Thousands(volume.val),
             timestamp |-> TimestampText(t.val)], NoLocals)

\* Line 65: the text between the closing brace of the replacement field and
\* the end of the line is part of the f-string literal.
HistTrailer == "  # Limited to 10 entries for brevity"

get_historical_data(ticker, data) ==
    IF Empty(data)
    THEN Returns(NoDataText(ticker, " in the specified date range."), NoLocals)
    ELSE
    LET formatted_data ==
            [i \in 1 .. Len(data) |->
                [date |-> DateText(data[i].Date),
                 close |-> FloatText(Round(Num(data[i].Close, 1), PriceDigits))]]
    IN  Returns([kind |-> "historical", ticker |-> ticker,
                 lines |-> SubSeq(formatted_data, 1, Min(HistLimit, Len(formatted_data))),
                 trailer |-> HistTrailer], NoLocals)

calculate_metrics(ticker, data) ==
    IF Empty(data) THEN Returns(NoDataText(ticker, "."), NoLocals)
    ELSE
    LET close == Column(data, "Close")
        sma == ILocLast(RollingMean(close, Window))
    IN
    IF sma.raised THEN sma ELSE
    LET log_returns == LogRatio(close, Shift1(close))
        volatility == Annualize(StdSquared(log_returns))
        t == IndexLast(data)
    IN
    IF t.raised THEN t ELSE
    Returns([kind |-> "metrics", ticker |-> ticker,
             sma |-> FloatText(Round(sma.val, PriceDigits)),
             volatility |-> FloatText(RoundVolatility(volatility)),
             timestamp |-> TimestampText(t.val)],
            [sma |-> sma.val, volatility |-> volatility])

AfterFetch(c, data) ==
    CASE c.tool = "get_stock_price" -> get_stock_price(c.ticker, data)
      [] c.tool = "get_historical_data" -> get_historical_data(c.ticker, data)
      [] c.tool = "calculate_metrics" -> calculate_metrics(c.ticker, data)

\* except Exception: the classes the handler catches.
ExceptionSubclasses == {"ValueError", "IndexError", "KeyError", "ConnectionError"}
\* except ValueError: only the parsing failures are caught.
HandlesValueError(e) == e.type = "ValueError"

Handles(e) == e.type \in ExceptionSubclasses

-----------------------------------------------------------------------------
(* The invocations *)

\* A frame shared by the invocations: whatever the provider serves now.
DataShared(self) == market

\* The local variable data of invocation self.
DataOf(self) == resp[self].rows

\* An empty frame sends the invocation back to call history() again.
PcRetryOnEmpty(rows) == IF rows = <<>> THEN "ready" ELSE "fetched"

\* Where control goes once history() has returned a frame: on to the
\* empty check, on every frame.
PcAfterResponse(rows) == "fetched"

\* An exception e raised inside the try of call c: the handler returns the
\* error text; a class it does not catch leaves the coroutine.
Except(self, c, stage, e) ==
    /\ raised' = [raised EXCEPT ![self] = <<[stage |-> stage, exc |-> e]>>]
    /\ pc' = [pc EXCEPT ![self] = "done"]
    /\ IF Handles(e)
       THEN /\ result' = [result EXCEPT ![self] = ErrorText(c.tool, c.ticker, e)]
            /\ outcome' = [outcome EXCEPT ![self] = "returned"]
       ELSE /\ outcome' = [outcome EXCEPT ![self] = "propagated"]
            /\ UNCHANGED result

Init ==
    /\ market \in SeriesFamily
    /\ pc = [i \in Invocations |-> "idle"]
    /\ call = [i \in Invocations |-> NoCall]
    /\ req = [i \in Invocations |-> NoReq]
    /\ fetches = [i \in Invocations |-> 0]
    /\ resp = [i \in Invocations |-> [arrived |-> FALSE, rows |-> <<>>]]
    /\ locals = [i \in Invocations |-> NoLocals]
    /\ raised = [i \in Invocations |-> <<>>]
    /\ result = [i \in Invocations |-> NoResult]
    /\ outcome = [i \in Invocations |-> "pending"]

\* The transport calls a tool: the try body runs up to stock.history(...).
Invoke(self, c, ctor) ==
    /\ pc[self] = "idle"
    /\ call' = [call EXCEPT ![self] = c]
    /\ LET b == BeforeFetch(c)
       IN  IF b.raised
           THEN Except(self, c, "parse", b.exc) /\ UNCHANGED req
           ELSE IF ctor.raised
           THEN Except(self, c, "ctor", ctor.exc) /\ UNCHANGED req
           ELSE /\ req' = [req EXCEPT ![self] = b.val]
                /\ pc' = [pc EXCEPT ![self] = "ready"]
                /\ UNCHANGED <<raised, result, outcome>>
    /\ UNCHANGED <<market, fetches, resp, locals>>

\* stock.history(...) is called.
Issue(self) ==
    /\ pc[self] = "ready"
    /\ fetches' = [fetches EXCEPT ![self] = @ + 1]
    /\ pc' = [pc EXCEPT ![self] = "fetching"]
    /\ UNCHANGED <<market, call, req, resp, locals, raised, result, outcome>>

\* stock.history(...) returns the provider's current series.
FetchReturns(self) ==
    /\ pc[self] = "fetching"
    /\ resp' = [resp EXCEPT ![self] = [arrived |-> TRUE, rows |-> market]]
    /\ pc' = [pc EXCEPT ![self] = PcAfterResponse(market)]
    /\ UNCHANGED <<market, call, req, fetches, locals, raised, result, outcome>>

\* stock.history(...) raises.
FetchRaises(self, e) ==
    /\ pc[self] = "fetching"
    /\ Except(self, call[self], "fetch", e)
    /\ UNCHANGED <<market, call, req, fetches, resp, locals>>

\* The rest of the try body: the empty check, the computation, the text.
Finish(self) ==
    /\ pc[self] = "fetched"
    /\ LET r == AfterFetch(call[self], DataOf(self))
       IN  IF r.raised
           THEN Except(self, call[self], "tail", r.exc) /\ UNCHANGED locals
           ELSE /\ result' = [result EXCEPT ![self] = r.val.text]
                /\ locals' = [locals EXCEPT ![self] = r.val.locals]
                /\ outcome' = [outcome EXCEPT ![self] = "returned"]
                /\ pc' = [pc EXCEPT ![self] = "done"]
                /\ UNCHANGED raised
    /\ UNCHANGED <<market, call, req, fetches, resp>>

\* The market moves: the provider serves another series from now on.
ProviderUpdate(s) ==
    /\ s # market
    /\ market' = s
    /\ UNCHANGED <<pc, call, req, fetches, resp, locals, raised, result, outcome>>

\* One invocation, every argument, every series.
Next ==
    \E self \in Solo :
        \/ \E c \in Calls, ctor \in CtorOutcomes : Invoke(self, c, ctor)
        \/ Issue(self)
        \/ FetchReturns(self)
        \/ \E e \in ProviderErrors : FetchRaises(self, e)
        \/ Finish(self)

Spec == Init /\ [][Next]_vars

\* Several invocations interleaved while the market moves.
InitConc ==
    /\ market \in ConcFamily
    /\ pc = [i \in Invocations |-> "idle"]
    /\ call = [i \in Invocations |-> NoCall]
    /\ req = [i \in Invocations |-> NoReq]
    /\ fetches = [i \in Invocations |-> 0]
    /\ resp = [i \in Invocations |-> [arrived |-> FALSE, rows |-> <<>>]]
    /\ locals = [i \in Invocations |-> NoLocals]
    /\ raised = [i \in Invocations |-> <<>>]
    /\ result = [i \in Invocations |-> NoResult]
    /\ outcome = [i \in Invocations |-> "pending"]

NextConc ==
    \/ \E self \in Invocations :
        \/ \E c \in ConcCalls, ctor \in CtorOutcomes : Invoke(self, c, ctor)
        \/ Issue(self)
        \/ FetchReturns(self)
        \/ \E e \in ProviderErrors : FetchRaises(self, e)
        \/ Finish(self)
    \/ \E s \in ConcFamily : ProviderUpdate(s)

SpecConc == InitConc /\ [][NextConc]_vars

-----------------------------------------------------------------------------
(* Vocabulary of the properties *)

Done(i) == pc[i] = "done"
Tool(i) == call[i].tool
Rows(i) == resp[i].rows

\* Invocation i got a frame of n rows back from history().
Fetched(i) == resp[i].arrived
NoRaise(i) == raised[i] = <<>>

TextKinds == {"snapshot", "historical", "metrics", "nodata"}

\* The sum of the closes of rows lo .. hi.
RECURSIVE SumCloses(_, _, _)
SumCloses(rows, lo, hi) ==
    IF lo > hi THEN 0 ELSE rows[hi].Close + SumCloses(rows, lo, hi - 1)

\* text shows the multiple of one cent nearest to num/den thousandths.
NearestCent(text, num, den) ==
    /\ Len(text) = 3 /\ text[1] = "num" /\ text[3] = 1
    /\ text[2] % 10 = 0
    /\ 2 * Abs(text[2] * den - num) <= 10 * den

\* The number that the digit groups g spell.
RECURSIVE GroupsValue(_)
GroupsValue(g) ==
    IF g = <<>> THEN 0
    ELSE 1000 * GroupsValue(SubSeq(g, 1, Len(g) - 1)) + g[Len(g)]

\* The j-th log-return of rows, j = 1 .. n-1, in units of ln 2.
Return(rows, j) == Log2(rows[j + 1].Close) - Log2(rows[j].Close)

RECURSIVE SumReturns(_, _)
SumReturns(rows, j) == IF j = 0 THEN 0 ELSE Return(rows, j) + SumReturns(rows, j - 1)

RECURSIVE SumSquares(_, _)
SumSquares(rows, j) ==
    IF j = 0 THEN 0 ELSE Return(rows, j) * Return(rows, j) + SumSquares(rows, j - 1)

\* 252 times the population variance of the n-1 log-returns of rows:
\* (m * sum(r^2) - sum(r)^2) / m^2 with m = n - 1.
PopulationVolSq(rows) ==
    LET m == Len(rows) - 1
        S == SumReturns(rows, m)
        Q == SumSquares(rows, m)
    IN  Num(252 * (m * Q - S * S), m * m)

AllClosesEqual(rows) == \A j \in 1 .. Len(rows) : rows[j].Close = rows[1].Close

\* The arguments name a date that strptime cannot parse.
UnparseableTexts == {BadFormat, BadDay, BadMonth}
BadDates(c) ==
    \/ c.start_date \in UnparseableTexts \cup {<<>>}
    \/ (~c.end_date.none /\ c.end_date.text \in UnparseableTexts)

-----------------------------------------------------------------------------
(* C1 *)

\* C1: every invocation of every tool ends by returning text and never lets
\* an exception leave the coroutine; when a statement inside the try raised,
\* the text is the tool's error message with the ticker and the exception's
\* message.
C1_AlwaysReturnsText ==
    \A i \in Invocations :
        /\ outcome[i] # "propagated"
        /\ Done(i) =>
            /\ outcome[i] = "returned"
            /\ result[i].kind \in TextKinds \cup {"error"}
            /\ NoRaise(i) => result[i].kind \in TextKinds
            /\ ~NoRaise(i) =>
                /\ result[i].kind = "error"
                /\ result[i].ticker = call[i].ticker
                /\ result[i].msg = raised[i][1].exc.msg
                /\ Tool(i) = "get_stock_price" =>
                        result[i].prefix = "Error fetching data for "
                /\ Tool(i) = "get_historical_data" =>
                        result[i].prefix = "Error fetching historical data for "
                /\ Tool(i) = "calculate_metrics" =>
                        result[i].prefix = "Error calculating metrics for "

\* A raise after the fetch (int() of a missing volume) was turned into text.
C1_Witness ==
    \E i \in Invocations :
        /\ Done(i) /\ ~NoRaise(i) /\ raised[i][1].stage = "tail"
        /\ result[i].kind = "error" /\ outcome[i] = "returned"

-----------------------------------------------------------------------------
(* C2 *)

\* C2: when history() returns an empty frame the tool returns the
\* "No data available for ticker ..." text, and nothing raised on the way.
C2_EmptyIsNoData ==
    \A i \in Invocations :
        (Done(i) /\ Fetched(i) /\ Len(Rows(i)) = 0) =>
            /\ NoRaise(i)
            /\ result[i].kind = "nodata"
            /\ result[i].head = "No data available for ticker "
            /\ result[i].ticker = call[i].ticker
            /\ result[i].tail =
                   (IF Tool(i) = "get_historical_data"
                    THEN " in the specified date range." ELSE ".")

C2_Witness ==
    \E i \in Invocations :
        /\ Done(i) /\ Fetched(i) /\ Len(Rows(i)) = 0
        /\ Tool(i) = "calculate_metrics" /\ result[i].kind = "nodata"

-----------------------------------------------------------------------------
(* C3 *)

\* C3 as stated: every invocation that has returned made exactly one fetch.
C3_ExactlyOneFetch ==
    \A i \in Invocations : Done(i) => fetches[i] = 1

\* C3 as amended: never more than one fetch; exactly one on every path that
\* reaches history() (a frame, an empty frame, a provider failure); none when
\* a statement before it raised, and then the error text is what is returned.
C3_AtMostOneFetch ==
    \A i \in Invocations :
        /\ fetches[i] <= 1
        /\ Fetched(i) => fetches[i] = 1
        /\ Done(i) =>
            /\ fetches[i] = 0 <=>
                   (~NoRaise(i) /\ raised[i][1].stage \in {"parse", "ctor"})
            /\ fetches[i] = 0 => result[i].kind = "error"
            /\ result[i].kind \in TextKinds => fetches[i] = 1

\* A bad date was rejected with no fetch made.
C3_Witness ==
    \E i \in Invocations :
        /\ Done(i) /\ fetches[i] = 0 /\ ~NoRaise(i)
        /\ raised[i][1].stage = "parse" /\ result[i].kind = "error"

-----------------------------------------------------------------------------
(* C4 *)

\* The listing of a non-empty frame of n rows has min(n, 10) entries, the
\* first min(n, 10) rows in order, and is the listing of that prefix.
HistoricalFirstTen ==
    \A i \in Invocations :
        (Done(i) /\ Fetched(i) /\ Tool(i) = "get_historical_data" /\ Len(Rows(i)) > 0) =>
            LET n == Len(Rows(i))
                k == IF n < 10 THEN n ELSE 10
            IN  /\ result[i].kind = "historical"
                /\ Len(result[i].lines) = k
                /\ \A j \in 1 .. k :
                      /\ result[i].lines[j].date = DateText(Rows(i)[j].Date)
                      /\ NearestCent(result[i].lines[j].close, Rows(i)[j].Close, 1)
                /\ \A j \in 1 .. k - 1 :
                      result[i].lines[j].date[3] < result[i].lines[j + 1].date[3]
                /\ result[i] =
                      get_historical_data(call[i].ticker, SubSeq(Rows(i), 1, k)).val.text

\* C4: get_historical_data renders exactly min(n, 10) entry lines, the first
\* min(n, 10) rows in ascending date order, rows after the 10th have no
\* effect, and the text carries no marker that rows were dropped: nothing
\* follows the entry lines.
C4_FirstTenNoMarker ==
    /\ HistoricalFirstTen
    /\ \A i \in Invocations :
          (Done(i) /\ result[i].kind = "historical" /\ Len(Rows(i)) > 10) =>
              result[i].trailer = ""

-----------------------------------------------------------------------------
(* C5 *)

\* C5: for a frame of at least 20 rows the SMA of calculate_metrics is the
\* arithmetic mean of exactly the last 20 closes, and the text shows it to
\* the nearest cent.
C5_SmaIsMeanOfLast20 ==
    \A i \in Invocations :
        (Done(i) /\ Fetched(i) /\ Tool(i) = "calculate_metrics" /\ Len(Rows(i)) >= 20) =>
            LET n == Len(Rows(i))
                sum == SumCloses(Rows(i), n - 19, n)
            IN  /\ result[i].kind = "metrics"
                /\ ~locals[i].sma.nan
                /\ locals[i].sma.num * 20 = locals[i].sma.den * sum
                /\ NearestCent(result[i].sma, sum, 20)

\* 21 rows whose first close differs from all of the last 20.
C5_Witness ==
    \E i \in Invocations :
        /\ Done(i) /\ Fetched(i) /\ Tool(i) = "calculate_metrics"
        /\ Len(Rows(i)) = 21 /\ result[i].kind = "metrics"
        /\ \A j \in 2 .. 21 : Rows(i)[j].Close # Rows(i)[1].Close

-----------------------------------------------------------------------------
(* C6 *)

\* C6 as stated: for a non-empty frame of fewer than 20 rows the SMA is
\* absent and the text shows an "unavailable" placeholder in its place.
C6_UnavailablePlaceholder ==
    \A i \in Invocations :
        (Done(i) /\ Fetched(i) /\ Tool(i) = "calculate_metrics"
            /\ Len(Rows(i)) > 0 /\ Len(Rows(i)) < 20) =>
            /\ result[i].kind = "metrics"
            /\ locals[i].sma.nan
            /\ result[i].sma = <<"unavailable">>

\* C6 as amended: for a non-empty frame of fewer than 20 rows the SMA is NaN
\* (no mean over a shorter window) and the text shows "nan" in its place;
\* with one row the volatility is NaN and shown as "nan", with two or more
\* it is a number; nothing raises.
C6_ShortSeriesShowsNaN ==
    \A i \in Invocations :
        (Done(i) /\ Fetched(i) /\ Tool(i) = "calculate_metrics"
            /\ Len(Rows(i)) > 0 /\ Len(Rows(i)) < 20) =>
            /\ NoRaise(i)
            /\ result[i].kind = "metrics"
            /\ locals[i].sma.nan
            /\ result[i].sma = <<"nan">>
            /\ Len(Rows(i)) = 1 =>
                  locals[i].volatility.nan /\ result[i].volatility = <<"nan">>
            /\ Len(Rows(i)) >= 2 =>
                  ~locals[i].volatility.nan /\ result[i].volatility[1] = "num"

\* Nineteen rows: one short of the window.
C6_Witness ==
    \E i \in Invocations :
        /\ Done(i) /\ Fetched(i) /\ Tool(i) = "calculate_metrics"
        /\ Len(Rows(i)) = 19 /\ result[i].kind = "metrics"
        /\ result[i].sma = <<"nan">>

-----------------------------------------------------------------------------
(* C7 *)

\* C7: the volatility of calculate_metrics is the population standard
\* deviation of the n-1 log-returns times sqrt(252) (here by its square, in
\* units of (ln 2)^2), the NaN of the first row left out; it is 0 when all
\* closes are equal.
C7_PopulationVolatility ==
    \A i \in Invocations :
        (Done(i) /\ Fetched(i) /\ Tool(i) = "calculate_metrics" /\ Len(Rows(i)) >= 2) =>
            LET v == PopulationVolSq(Rows(i))
            IN  /\ result[i].kind = "metrics"
                /\ locals[i].volatility = v
                /\ result[i].volatility = <<"num", v.num, v.den>>
                /\ AllClosesEqual(Rows(i)) => result[i].volatility = <<"num", 0, 1>>

\* Three or more rows with a close that moves: a positive volatility.
C7_Witness ==
    \E i \in Invocations :
        /\ Done(i) /\ Fetched(i) /\ Tool(i) = "calculate_metrics"
        /\ Len(Rows(i)) >= 3 /\ ~AllClosesEqual(Rows(i))
        /\ result[i].kind = "metrics" /\ locals[i].volatility.num > 0

-----------------------------------------------------------------------------
(* C9 *)

-----------------------------------------------------------------------------
(* C8 *)

\* What the provider did to invocation i: the frame history() returned, or
\* the exception that Ticker() or history() raised.
ProviderSaid(i) ==
    <<resp[i],
      IF ~NoRaise(i) /\ raised[i][1].stage \in {"ctor", "fetch"} THEN raised[i] ELSE <<>>>>

\* C8: under every interleaving the text an invocation returns is a function
\* of its own arguments and of the provider's answer to its own fetch alone:
\* two invocations with the same arguments and the same answer return the
\* same text, whatever the others did and whatever the provider serves since.
C8_ResultOfOwnFetchOnly ==
    \A i, j \in Invocations :
        (Done(i) /\ Done(j) /\ call[i] = call[j] /\ ProviderSaid(i) = ProviderSaid(j)) =>
            /\ result[i] = result[j]
            /\ outcome[i] = outcome[j]
            /\ locals[i] = locals[j]

\* Two invocations with the same arguments got the same frame, returned at
\* different times, and the provider now serves another series.
C8_Witness ==
    \E i, j \in Invocations :
        /\ i # j /\ Done(i) /\ Done(j) /\ call[i] = call[j]
        /\ Fetched(i) /\ Rows(i) = Rows(j) /\ Rows(i) # <<>>
        /\ market # Rows(i) /\ market # <<>>
        /\ result[i].kind = "metrics" /\ result[i] = result[j]

-----------------------------------------------------------------------------
(* C10 *)

\* C10: every value in the returned text comes from the one frame the
\* invocation's own fetch returned: in calculate_metrics the SMA, the
\* volatility and the timestamp (that of the frame's last row), in
\* get_stock_price the price, the volume and the timestamp of that frame's
\* last row; also when the provider's data has changed since.
C10_OneSnapshot ==
    \A i \in Invocations :
        (Done(i) /\ Fetched(i) /\ Len(Rows(i)) > 0) =>
            LET n == Len(Rows(i))
                last == Rows(i)[n]
            IN  /\ fetches[i] = 1
                /\ result[i].kind \in {"snapshot", "historical", "metrics"}
                /\ result[i].kind = "metrics" =>
                      /\ result[i].timestamp = TimestampText(last.Date)
                      /\ n >= 20 => NearestCent(result[i].sma, SumCloses(Rows(i), n - 19, n), 20)
                      /\ n < 20 => result[i].sma = <<"nan">>
                      /\ n >= 2 =>
                            result[i].volatility =
                                <<"num", PopulationVolSq(Rows(i)).num, PopulationVolSq(Rows(i)).den>>
                /\ result[i].kind = "snapshot" =>
                      /\ result[i].timestamp = TimestampText(last.Date)
                      /\ NearestCent(result[i].price, last.Close, 1)
                      /\ GroupsValue(result[i].volume) = last.Volume

\* calculate_metrics returned after the provider moved to another series.
C10_Witness ==
    \E i \in Invocations :
        /\ Done(i) /\ Fetched(i) /\ result[i].kind = "metrics"
        /\ market # <<>> /\ market # Rows(i)
        /\ Len(market) # Len(Rows(i))

====
